---- MODULE Spec2Model ----
(***************************************************************************)
(* PyRCN incremental ridge regression: IncrementalRegression and           *)
(* FastIncrementalRegression (pyrcn/linear_model), and the fit of the     *)
(* InputToNode block (pyrcn/base/blocks).                                  *)
(*                                                                         *)
(* Arithmetic is exact: every numpy array is an array of rationals with a  *)
(* common denominator, [nd, m, den]:                                       *)
(*   nd  = number of dimensions (0 = the unset sentinel, 1, 2)             *)
(*   m   = the numerators, a sequence of rows (a 1-D array of length L is  *)
(*         the single row <<v1..vL>>, which is how numpy aligns it when it *)
(*         broadcasts against a 2-D array)                                 *)
(*   den = the common denominator (> 0)                                    *)
(* Inputs are float arrays with integer values.                            *)
(***************************************************************************)
EXTENDS Integers, Sequences, FiniteSets, TLC

VARIABLES
    cls,             \* which class the object is: "Incremental" or "Fast"
    alpha,           \* self.alpha
    fit_intercept,   \* self.fit_intercept
    normalize,       \* self.normalize
    scaler,          \* self.scaler (StandardScaler running statistics)
    K,               \* self._K (IncrementalRegression) / self._xTx (Fast)
    xTy,             \* self._xTy
    output_weights,  \* self._output_weights
    call,            \* the last call made on the object and how it ended
    ncalls,          \* number of calls made so far
    data,            \* the caller's dataset [X, y], streamed in batches
    pos,             \* number of samples of data passed to the object so far
    hist,            \* the calls that streamed data, oldest first
    itn              \* an InputToNode: its hyperparameters and fitted fields

vars == <<cls, alpha, fit_intercept, normalize, scaler, K, xTy,
          output_weights, call, ncalls, data, pos, hist, itn>>

\* the regressor, its caller's data and the call in progress
regression == <<cls, alpha, fit_intercept, normalize, scaler, K, xTy,
                output_weights, call, ncalls, data, pos, hist>>

stream == <<data, pos, hist>>

config == <<cls, alpha, fit_intercept, normalize>>

----------------------------------------------------------------------------
(* Bounds of the model *)

MaxCalls == 2
MaxBatches == 3
MaxSamples == 2
MaxFeatures == 2
MaxTargets == 2
MaxAlpha == 1
DataLen == 4
NumVariants == 2

----------------------------------------------------------------------------
(* Integer helpers *)

Abs(x) == IF x < 0 THEN -x ELSE x

Max(a, b) == IF a >= b THEN a ELSE b

RECURSIVE GCD(_, _)
GCD(a, b) == IF b = 0 THEN a ELSE GCD(b, a % b)

RECURSIVE GcdSeq(_)
GcdSeq(s) == IF s = <<>> THEN 0 ELSE GCD(Abs(Head(s)), GcdSeq(Tail(s)))

RECURSIVE ProdSeq(_)
ProdSeq(s) == IF s = <<>> THEN 1 ELSE Head(s) * ProdSeq(Tail(s))

RECURSIVE SumTo(_, _)
SumTo(f, n) == IF n = 0 THEN 0 ELSE f[n] + SumTo(f, n - 1)

IsSquare(v) == \E r \in 0..v : r * r = v

ISqrt(v) == CHOOSE r \in 0..v : r * r = v

----------------------------------------------------------------------------
(* Integer matrices: sequences of rows *)

Rows(M) == Len(M)

Cols(M) == IF Len(M) = 0 THEN 0 ELSE Len(M[1])

Transpose(M) == [j \in 1..Cols(M) |-> [i \in 1..Rows(M) |-> M[i][j]]]

MatMul(A, B) ==
    [i \in 1..Rows(A) |-> [j \in 1..Cols(B) |->
        SumTo([k \in 1..Cols(A) |-> A[i][k] * B[k][j]], Cols(A))]]

MatScale(c, M) == [i \in 1..Rows(M) |-> [j \in 1..Cols(M) |-> c * M[i][j]]]

Identity(n) == [i \in 1..n |-> [j \in 1..n |-> IF i = j THEN 1 ELSE 0]]

\* M without row i and column j
Minor(M, i, j) ==
    [a \in 1..(Rows(M) - 1) |-> [b \in 1..(Cols(M) - 1) |->
        M[IF a < i THEN a ELSE a + 1][IF b < j THEN b ELSE b + 1]]]

Sign(i) == IF i % 2 = 0 THEN 1 ELSE -1

RECURSIVE Det(_)
Det(M) ==
    IF Rows(M) = 0 THEN 1
    ELSE SumTo([j \in 1..Cols(M) |->
                   Sign(1 + j) * M[1][j] * Det(Minor(M, 1, j))], Cols(M))

Adjugate(M) ==
    [i \in 1..Rows(M) |-> [j \in 1..Cols(M) |->
        Sign(i + j) * Det(Minor(M, j, i))]]

RECURSIVE Flatten(_)
Flatten(M) == IF M = <<>> THEN <<>> ELSE Head(M) \o Flatten(Tail(M))

----------------------------------------------------------------------------
(* numpy arrays with exact rational entries *)

\* np.ndarray([]): the 0-d array the code uses for "not set"; None in the
\* Fast class
Unset == [nd |-> 0, m |-> <<>>, den |-> 1]

IsSet(a) == a.nd # 0

\* Python's None, as a value a call returns
None == [nd |-> -1, m |-> <<>>, den |-> 1]

\* np.array([]): a 1-D array of length 0
EmptyArray == [nd |-> 1, m |-> <<<<>>>>, den |-> 1]

\* lowest terms, positive denominator: equal arrays have equal records
Norm(a) ==
    IF a.den = 1 THEN a
    ELSE LET g == GCD(GcdSeq(Flatten(a.m)), Abs(a.den))
             s == IF a.den < 0 THEN -g ELSE g
         IN  [nd |-> a.nd,
              m |-> [i \in 1..Rows(a.m) |-> [j \in 1..Cols(a.m) |->
                        a.m[i][j] \div s]],
              den |-> a.den \div s]

IntArr(nd, M) == [nd |-> nd, m |-> M, den |-> 1]

\* ndarray.T of a 2-D array
T(a) == [a EXCEPT !.m = Transpose(a.m)]

\* a @ b with a 2-D: defined when the inner dimensions agree (b 1-D is a
\* column vector and the result is 1-D)
CanDot(a, b) ==
    /\ a.nd = 2
    /\ b.nd \in {1, 2}
    /\ Cols(a.m) = (IF b.nd = 2 THEN Rows(b.m) ELSE Cols(b.m))

safe_sparse_dot(a, b) ==
    IF b.nd = 2
    THEN Norm([nd |-> 2, m |-> MatMul(a.m, b.m), den |-> a.den * b.den])
    ELSE Norm([nd |-> 1,
               m |-> Transpose(MatMul(a.m, Transpose(b.m))),
               den |-> a.den * b.den])

\* numpy broadcasting of two arrays of at most two dimensions
BroadcastOK(a, b) ==
    /\ Rows(a.m) = Rows(b.m) \/ Rows(a.m) = 1 \/ Rows(b.m) = 1
    /\ Cols(a.m) = Cols(b.m) \/ Cols(a.m) = 1 \/ Cols(b.m) = 1

BroadcastOp(a, b, sgn) ==
    LET r == Max(Rows(a.m), Rows(b.m))
        c == Max(Cols(a.m), Cols(b.m))
        ea(i, j) == a.m[IF Rows(a.m) = 1 THEN 1 ELSE i][IF Cols(a.m) = 1 THEN 1 ELSE j]
        eb(i, j) == b.m[IF Rows(b.m) = 1 THEN 1 ELSE i][IF Cols(b.m) = 1 THEN 1 ELSE j]
    IN  Norm([nd |-> Max(a.nd, b.nd),
              m |-> [i \in 1..r |-> [j \in 1..c |->
                        ea(i, j) * b.den + sgn * eb(i, j) * a.den]],
              den |-> a.den * b.den])

\* a + b and a - b
Plus(a, b) == BroadcastOp(a, b, 1)

Minus(a, b) == BroadcastOp(a, b, -1)

\* out += b: the broadcast result must have the shape of out
IAddOK(out, b) ==
    /\ BroadcastOK(out, b)
    /\ Max(out.nd, b.nd) = out.nd
    /\ Max(Rows(out.m), Rows(b.m)) = Rows(out.m)
    /\ Max(Cols(out.m), Cols(b.m)) = Cols(out.m)

IAdd(out, b) == Plus(out, b)

\* np.linalg.inv(a): a must be 2-D and square with a non-zero determinant
Invertible(a) ==
    /\ a.nd = 2
    /\ Rows(a.m) = Cols(a.m)
    /\ Det(a.m) # 0

inv(a) ==
    Norm([nd |-> 2, m |-> MatScale(a.den, Adjugate(a.m)), den |-> Det(a.m)])

----------------------------------------------------------------------------
(* sklearn.preprocessing.StandardScaler(copy=False), with_mean and with_std. *)
(* The running statistics are kept as the sample count and, per column, the  *)
(* sum and the sum of squares: mean = sum/n, var = (n*sumsq - sum^2)/n^2.    *)

ScalerInit == [n |-> 0, sum |-> <<>>, sumsq |-> <<>>]

\* partial_fit checks the number of columns against the one it was fitted on
ScalerPartialFitOK(sc, a) == sc.n = 0 \/ Len(sc.sum) = Cols(a.m)

ColSum(M, j, pow) ==
    SumTo([i \in 1..Rows(M) |-> IF pow = 2 THEN M[i][j] * M[i][j] ELSE M[i][j]],
          Rows(M))

ScalerPartialFit(sc, a) ==
    [n |-> sc.n + Rows(a.m),
     sum |-> [j \in 1..Cols(a.m) |->
                 (IF sc.n = 0 THEN 0 ELSE sc.sum[j]) + ColSum(a.m, j, 1)],
     sumsq |-> [j \in 1..Cols(a.m) |->
                 (IF sc.n = 0 THEN 0 ELSE sc.sumsq[j]) + ColSum(a.m, j, 2)]]

\* fit forgets the running statistics and starts again
ScalerFit(sc, a) == ScalerPartialFit(ScalerInit, a)

\* n^2 * var of column j
ScaledVar(sc, j) == sc.n * sc.sumsq[j] - sc.sum[j] * sc.sum[j]

\* the standard deviations the model can represent exactly
ExactScaler(sc) == \A j \in 1..Len(sc.sum) : IsSquare(ScaledVar(sc, j))

\* (x - mean) / scale, scale = sqrt(var) and 1 for a constant column:
\* (n*x - sum) / sqrt(n^2 var), or (n*x - sum) / n for a constant column
ScalerTransform(sc, a) ==
    LET q == [j \in 1..Len(sc.sum) |->
                 IF ScaledVar(sc, j) = 0 THEN sc.n ELSE ISqrt(ScaledVar(sc, j))]
        L == ProdSeq(q)
    IN  Norm([nd |-> 2,
              m |-> [i \in 1..Rows(a.m) |-> [j \in 1..Cols(a.m) |->
                        (sc.n * a.m[i][j] - sc.sum[j] * a.den) * (L \div q[j])]],
              den |-> L * a.den])

----------------------------------------------------------------------------
(* The state of one regressor and the outcome of a call *)

Self == [K |-> K, xTy |-> xTy, W |-> output_weights, scaler |-> scaler,
         err |-> "none"]

\* __init__
Fresh == [K |-> Unset, xTy |-> Unset, W |-> Unset, scaler |-> ScalerInit,
          err |-> "none"]

Raise(S, e) == [S EXCEPT !.err = e]

\* BaseEstimator._validate_data(X, y, multi_output=True): check_X_y rejects
\* X and y with different numbers of samples.  Its return value is dropped
\* and it resets n_features_in_ on every call.
Samples(y) == IF y.nd = 2 THEN Rows(y.m) ELSE Cols(y.m)

ValidData(X, y) == Rows(X.m) = Samples(y)

\* np.hstack((X, np.ones(shape=(X.shape[0], 1))))
HStackOnes(X) ==
    [X EXCEPT !.m = [i \in 1..Rows(X.m) |-> Append(X.m[i], X.den)]]

\* _preprocessing, line 195
Augmented(X) == IF fit_intercept THEN HStackOnes(X) ELSE X

\* _preprocessing, lines 198-203: what the scaler is fitted to afterwards
Refitted(sc, X1, partial_normalize) ==
    IF ~normalize THEN sc
    ELSE IF partial_normalize THEN ScalerPartialFit(sc, X1)
    ELSE ScalerFit(sc, X1)

\* _preprocessing: the scaler is built with copy=False, so transform
\* overwrites X_preprocessed and its return value is not needed
preprocessing(sc, X, partial_normalize) ==
    LET X1 == Augmented(X)
        sc1 == Refitted(sc, X1, partial_normalize)
    IN  IF ~normalize THEN [X |-> X1, scaler |-> sc, err |-> "none"]
        ELSE IF partial_normalize /\ ~ScalerPartialFitOK(sc, X1)
        THEN [X |-> X1, scaler |-> sc, err |-> "ValueError"]
        ELSE [X |-> ScalerTransform(sc1, X1), scaler |-> sc1, err |-> "none"]

\* the statistics after preprocessing have exactly representable deviations
ExactInput(sc, X, partial_normalize) ==
    normalize /\ (partial_normalize => ScalerPartialFitOK(sc, Augmented(X)))
        => ExactScaler(Refitted(sc, Augmented(X), partial_normalize))

----------------------------------------------------------------------------
(* IncrementalRegression *)

\* a reset that keeps the output weights
ResetState_KeepW(S, reset) ==
    IF reset THEN [S EXCEPT !.K = Unset, !.xTy = Unset] ELSE S

\* a reset that does not look at the flag
ResetState_Always(S, reset) ==
    [S EXCEPT !.K = Unset, !.xTy = Unset, !.W = Unset]

\* lines 99-102
ResetState(S, reset) ==
    IF reset THEN [S EXCEPT !.K = Unset, !.xTy = Unset, !.W = Unset] ELSE S

\* a regressor that overwrites K with the batch's Gram matrix
AccumulateK_Overwrite(S, Xp) == [S EXCEPT !.K = safe_sparse_dot(T(Xp), Xp)]

\* lines 104-107: self._K = X'^T X' the first time, self._K += X'^T X' after
AccumulateK(S, Xp) ==
    LET G == safe_sparse_dot(T(Xp), Xp)
    IN  IF ~IsSet(S.K) THEN [S EXCEPT !.K = G]
        ELSE IF ~IAddOK(S.K, G) THEN Raise(S, "ValueError")
        ELSE [S EXCEPT !.K = IAdd(S.K, G)]

\* a regressor that overwrites xTy with the batch's X'^T y
AccumulateXTy_Overwrite(S, Xp, y) ==
    IF ~CanDot(T(Xp), y) THEN Raise(S, "ValueError")
    ELSE [S EXCEPT !.xTy = safe_sparse_dot(T(Xp), y)]

\* lines 109-112: the same for self._xTy with X'^T y
AccumulateXTy(S, Xp, y) ==
    IF ~CanDot(T(Xp), y) THEN Raise(S, "ValueError")
    ELSE LET G == safe_sparse_dot(T(Xp), y)
         IN  IF ~IsSet(S.xTy) THEN [S EXCEPT !.xTy = G]
             ELSE IF ~IAddOK(S.xTy, G) THEN Raise(S, "ValueError")
             ELSE [S EXCEPT !.xTy = IAdd(S.xTy, G)]

\* a regressor that forgets the regularizer
Regularized_NoAlpha(S, d) == S.K

\* a regressor that subtracts the regularizer
Regularized_Minus(S, d) == Minus(S.K, IntArr(2, MatScale(alpha, Identity(d))))

\* lines 118-119: K + alpha * identity(d), then np.linalg.inv
Regularized(S, d) == Plus(S.K, IntArr(2, MatScale(alpha, Identity(d))))

\* a regressor whose later updates add P X'^T y, without the residual
UpdateWeights_NoResidual(S, Xp, y, P) ==
    IF ~CanDot(T(Xp), y) \/ ~CanDot(P, safe_sparse_dot(T(Xp), y))
    THEN Raise(S, "ValueError")
    ELSE LET D == safe_sparse_dot(P, safe_sparse_dot(T(Xp), y))
         IN  IF ~IsSet(S.W) THEN [S EXCEPT !.W = safe_sparse_dot(P, S.xTy)]
             ELSE IF ~IAddOK(S.W, D) THEN Raise(S, "ValueError")
             ELSE [S EXCEPT !.W = IAdd(S.W, D)]

\* lines 121-127: W = P C the first time; W += P X'^T (y - X' W) after
UpdateWeights(S, Xp, y, P) ==
    IF ~IsSet(S.W)
    THEN IF ~CanDot(P, S.xTy) THEN Raise(S, "ValueError")
         ELSE [S EXCEPT !.W = safe_sparse_dot(P, S.xTy)]
    ELSE IF ~CanDot(Xp, S.W) THEN Raise(S, "ValueError")
    ELSE LET XW == safe_sparse_dot(Xp, S.W)
         IN  IF ~BroadcastOK(y, XW) THEN Raise(S, "ValueError")
             ELSE LET R == Minus(y, XW)
                  IN  IF ~CanDot(T(Xp), R) THEN Raise(S, "ValueError")
                      ELSE LET G == safe_sparse_dot(T(Xp), R)
                           IN  IF ~CanDot(P, G) THEN Raise(S, "ValueError")
                               ELSE LET D == safe_sparse_dot(P, G)
                                    IN  IF ~IAddOK(S.W, D)
                                        THEN Raise(S, "ValueError")
                                        ELSE [S EXCEPT !.W = IAdd(S.W, D)]

\* a regressor that ignores postpone_inverse
Solve_Eager(S, Xp, y, postpone_inverse) ==
    IF ~BroadcastOK(S.K, IntArr(2, Identity(Cols(Xp.m))))
    THEN Raise(S, "ValueError")
    ELSE LET A == Plus(S.K, IntArr(2, MatScale(alpha, Identity(Cols(Xp.m)))))
         IN  IF ~Invertible(A) THEN Raise(S, "LinAlgError")
             ELSE UpdateWeights(S, Xp, y, inv(A))

\* a regressor that postpones whenever it is asked to
Solve_AlwaysPostpones(S, Xp, y, postpone_inverse) ==
    IF postpone_inverse THEN S
    ELSE IF ~BroadcastOK(S.K, IntArr(2, Identity(Cols(Xp.m))))
    THEN Raise(S, "ValueError")
    ELSE LET A == Plus(S.K, IntArr(2, MatScale(alpha, Identity(Cols(Xp.m)))))
         IN  IF ~Invertible(A) THEN Raise(S, "LinAlgError")
             ELSE UpdateWeights(S, Xp, y, inv(A))

\* lines 114-130
Solve(S, Xp, y, postpone_inverse) ==
    IF postpone_inverse /\ ~IsSet(S.W) THEN S
    ELSE IF ~BroadcastOK(S.K, IntArr(2, Identity(Cols(Xp.m))))
    THEN Raise(S, "ValueError")
    ELSE LET A == Regularized(S, Cols(Xp.m))
         IN  IF ~Invertible(A) THEN Raise(S, "LinAlgError")
             ELSE UpdateWeights(S, Xp, y, inv(A))

partial_fit(S, X, y, partial_normalize, reset, validate, postpone_inverse) ==
    IF validate /\ ~ValidData(X, y) THEN Raise(S, "ValueError")
    ELSE LET pp == preprocessing(S.scaler, X, partial_normalize)
         IN  IF pp.err # "none" THEN Raise(S, pp.err)
             ELSE LET S1 == ResetState([S EXCEPT !.scaler = pp.scaler], reset)
                      S2 == AccumulateK(S1, pp.X)
                  IN  IF S2.err # "none" THEN S2
                      ELSE LET S3 == AccumulateXTy(S2, pp.X, y)
                           IN  IF S3.err # "none" THEN S3
                               ELSE Solve(S3, pp.X, y, postpone_inverse)

\* lines 155-157
fit(S, X, y) == partial_fit(S, X, y, FALSE, TRUE, TRUE, FALSE)

\* a predict without the not-fitted guard
predict_NoGuard(S, X) ==
    LET pp == preprocessing(S.scaler, X, FALSE)
    IN  IF ~CanDot(pp.X, S.W)
        THEN Raise([S EXCEPT !.scaler = pp.scaler], "ValueError")
        ELSE [S EXCEPT !.scaler = pp.scaler]

\* lines 170-174: the returned prediction is not part of the state
predict(S, X) ==
    IF ~IsSet(S.W) THEN Raise(S, "NotFittedError")
    ELSE LET pp == preprocessing(S.scaler, X, FALSE)
         IN  IF ~CanDot(pp.X, S.W)
             THEN Raise([S EXCEPT !.scaler = pp.scaler], "ValueError")
             ELSE [S EXCEPT !.scaler = pp.scaler]

\* a predict that transforms with the stored scaler instead of refitting it
predict_value_Stale(S, X) ==
    LET X1 == Augmented(X)
    IN  IF predict(S, X).err # "none" THEN None
        ELSE IF ~normalize THEN safe_sparse_dot(X1, S.W)
        ELSE IF S.scaler.n = 0 \/ Len(S.scaler.sum) # Cols(X1.m) THEN None
        ELSE safe_sparse_dot(ScalerTransform(S.scaler, X1), S.W)

\* lines 173-174: what predict returns (None when it raises)
predict_value(S, X) ==
    IF predict(S, X).err # "none" THEN None
    ELSE safe_sparse_dot(preprocessing(S.scaler, X, FALSE).X, S.W)

\* a[:-1] of a 1-D array
DropLast(a) ==
    Norm([a EXCEPT !.m = <<SubSeq(a.m[1], 1, Cols(a.m) - 1)>>])

\* a[:, :-1] of a 2-D array
DropLastColumn(a) ==
    Norm([a EXCEPT !.m = [i \in 1..Rows(a.m) |->
                             SubSeq(a.m[i], 1, Cols(a.m) - 1)]])

\* a[:, -1] of a 2-D array: 1-D, one entry per row
LastColumn(a) ==
    Norm([nd |-> 1,
          m |-> <<[i \in 1..Rows(a.m) |-> a.m[i][Cols(a.m)]]>>,
          den |-> a.den])

\* np.transpose: a 1-D array is its own transpose
transpose(a) == IF a.nd = 2 THEN T(a) ELSE a

\* what an accessor returns on an object whose output weights are not set:
\* IncrementalRegression.coef_ returns the unset array itself (line 239),
\* its intercept_ np.array([]) (line 255); the Fast properties fall off
\* their end and return None
Returns(v) == [ret |-> v, err |-> "none"]

\* a coef_ that does not strip the intercept row
coef_KeepsIntercept(S) ==
    IF IsSet(S.W) THEN Returns(transpose(S.W))
    ELSE Returns(IF cls = "Incremental" THEN S.W ELSE None)

\* a coef_ that guards like predict
coef_Raises(S) ==
    IF ~IsSet(S.W) THEN [ret |-> None, err |-> "NotFittedError"]
    ELSE IF ~fit_intercept THEN Returns(transpose(S.W))
    ELSE IF S.W.nd = 2 THEN Returns(DropLastColumn(transpose(S.W)))
    ELSE Returns(DropLast(S.W))

\* lines 231-239; lines 155-162 of the Fast class
coef_(S) ==
    IF IsSet(S.W)
    THEN IF fit_intercept
         THEN IF S.W.nd = 2 THEN Returns(DropLastColumn(transpose(S.W)))
              ELSE Returns(DropLast(S.W))
         ELSE Returns(transpose(S.W))
    ELSE Returns(IF cls = "Incremental" THEN S.W ELSE None)

\* an intercept_ that guards like predict
intercept_Raises(S) ==
    IF ~IsSet(S.W) THEN [ret |-> None, err |-> "NotFittedError"]
    ELSE IF ~fit_intercept THEN Returns(EmptyArray)
    ELSE IF S.W.nd # 2 THEN [ret |-> None, err |-> "IndexError"]
    ELSE Returns(LastColumn(transpose(S.W)))

\* lines 253-255; lines 172-173 of the Fast class.  np.transpose(W)[:, -1]
\* indexes two dimensions: on a 1-D W it raises IndexError
intercept_(S) ==
    IF IsSet(S.W) /\ fit_intercept
    THEN IF S.W.nd = 2 THEN Returns(LastColumn(transpose(S.W)))
         ELSE [ret |-> None, err |-> "IndexError"]
    ELSE Returns(IF cls = "Incremental" THEN EmptyArray ELSE None)

----------------------------------------------------------------------------
(* FastIncrementalRegression *)

\* __init__ (lines 42-50) sets no _n_samples, and nothing else does: reading
\* self._n_samples in the solve (lines 86 and 91) raises AttributeError
has_n_samples == FALSE

\* lines 85-92
FastSolve(S, update_output_weights, finalize) ==
    IF ~update_output_weights THEN S
    ELSE IF ~has_n_samples THEN Raise(S, "AttributeError")
    ELSE S

fast_partial_fit(S, X, y, partial_normalize, validate, update_output_weights, finalize) ==
    IF validate /\ ~ValidData(X, y) THEN Raise(S, "ValueError")
    ELSE LET pp == preprocessing(S.scaler, X, partial_normalize)
         IN  IF pp.err # "none" THEN Raise(S, pp.err)
             ELSE LET S1 == [S EXCEPT !.scaler = pp.scaler]
                      S2 == AccumulateK(S1, pp.X)
                  IN  IF S2.err # "none" THEN S2
                      ELSE LET S3 == AccumulateXTy(S2, pp.X, y)
                           IN  IF S3.err # "none" THEN S3
                               ELSE FastSolve(S3, update_output_weights, finalize)

\* lines 106-107
fast_fit(S, X, y) == fast_partial_fit(S, X, y, FALSE, TRUE, TRUE, TRUE)

\* lines 118-121
fast_predict(S, X) == predict(S, X)

----------------------------------------------------------------------------
(* InputToNode *)

\* __init__ (lines 71-97): the hyperparameters as given, nothing fitted.
\* sparsity is a rational <<numerator, denominator>>; k_in and the shapes of
\* the predefined weights are <<>> for None; the fitted weights are kept by
\* their shape, <<>> before fit.
InputToNode(hidden_layer_size, sparsity, input_activation, input_scaling, bias_scaling, k_in, predefined_input_weights, predefined_bias_weights) ==
    [hidden_layer_size |-> hidden_layer_size,
     sparsity |-> sparsity,
     input_activation |-> input_activation,
     input_scaling |-> input_scaling,
     bias_scaling |-> bias_scaling,
     k_in |-> k_in,
     predefined_input_weights |-> predefined_input_weights,
     predefined_bias_weights |-> predefined_bias_weights,
     n_features_in_ |-> 0,
     fan_in |-> -1,
     input_weights |-> <<>>,
     bias_weights |-> <<>>,
     nfits |-> 0,
     err |-> "none"]

\* the defaults of __init__ (lines 72-81)
DefaultInputToNode == InputToNode(500, <<1, 1>>, "tanh", 1, 1, <<>>, <<>>, <<>>)

ACTIVATIONS == {"tanh", "identity", "logistic", "relu", "bounded_relu"}

\* _validate_hyperparameters (lines 200-224): the first failed test raises
ValidHyperparameters(o) ==
    /\ ~(o.hidden_layer_size <= 0)
    /\ ~(o.sparsity[1] <= 0 \/ o.sparsity[1] > o.sparsity[2])
    /\ o.input_activation \in ACTIVATIONS
    /\ ~(o.input_scaling <= 0)
    /\ ~(o.bias_scaling < 0)
    /\ ~(o.k_in # <<>> /\ (o.k_in[1] <= 0 \/ o.k_in[1] >= o.hidden_layer_size))

\* float(k_in) / float(n_features), in lowest terms
Quotient(k, n) == <<k \div GCD(k, n), n \div GCD(k, n)>>

\* int(np.rint(n / d)) for n >= 0, d > 0: halves go to the even neighbour
Rint(n, d) ==
    LET q == n \div d
        r == n % d
    IN  IF 2 * r < d THEN q
        ELSE IF 2 * r > d THEN q + 1
        ELSE IF q % 2 = 0 THEN q ELSE q + 1

\* _uniform_random_input_weights is imported from pyrcn.base, outside the
\* sources at hand: with a fan_in of at most hidden_layer_size it returns
\* weights of shape (n_features_in, hidden_layer_size); what it does with a
\* larger fan_in is left open (it returns or it raises)
uniform_random_input_weights(n_features_in, hidden_layer_size, fan_in) ==
    IF fan_in <= hidden_layer_size
    THEN {<<n_features_in, hidden_layer_size>>}
    ELSE {<<n_features_in, hidden_layer_size>>, <<>>}

\* _uniform_random_bias, from pyrcn.base as well: a column of
\* hidden_layer_size weights
uniform_random_bias(hidden_layer_size) == <<hidden_layer_size, 1>>

\* lines 117-118: k_in, when set, overrides sparsity
Sparsity(o, n_features) ==
    IF o.k_in # <<>> THEN Quotient(o.k_in[1], n_features) ELSE o.sparsity

\* line 119
FanIn(o, n_features) ==
    Rint(o.hidden_layer_size * Sparsity(o, n_features)[1],
         Sparsity(o, n_features)[2])

\* what the call of _uniform_random_input_weights in fit can give; <<>>
\* when fit does not get to call it
Drawn(o, n_features) ==
    IF ValidHyperparameters(o) /\ o.predefined_input_weights = <<>>
    THEN uniform_random_input_weights(n_features, o.hidden_layer_size,
                                      FanIn(o, n_features))
    ELSE {<<>>}

\* InputToNode.fit (lines 99-137) on an X with n_features columns; drawn is
\* what _uniform_random_input_weights gives when it is called (<<>> when it
\* raises)
itn_fit(o, n_features, drawn) ==
    LET called == [o EXCEPT !.nfits = o.nfits + 1]
    IN  IF ~ValidHyperparameters(o) THEN [called EXCEPT !.err = "ValueError"]
        ELSE
          LET o1 == [called EXCEPT !.n_features_in_ = n_features,
                                   !.sparsity = Sparsity(o, n_features),
                                   !.fan_in = FanIn(o, n_features)]
              o2 == IF o.predefined_input_weights # <<>>
                    THEN IF o.predefined_input_weights
                              = <<n_features, o.hidden_layer_size>>
                         THEN [o1 EXCEPT !.input_weights
                                           = o.predefined_input_weights,
                                         !.err = "none"]
                         ELSE [o1 EXCEPT !.err = "AssertionError"]
                    ELSE IF drawn = <<>>
                         THEN [o1 EXCEPT !.err = "ValueError"]
                         ELSE [o1 EXCEPT !.input_weights = drawn,
                                         !.err = "none"]
          IN  IF o2.err # "none" THEN o2
              ELSE IF o.predefined_bias_weights # <<>>
              THEN IF o.predefined_bias_weights = <<o.hidden_layer_size, 1>>
                   THEN [o2 EXCEPT !.bias_weights = o.predefined_bias_weights]
                   ELSE [o2 EXCEPT !.err = "AssertionError"]
              ELSE [o2 EXCEPT !.bias_weights
                                = uniform_random_bias(o.hidden_layer_size)]

----------------------------------------------------------------------------
(* The caller's inputs *)

\* The caller's data: DataLen samples of f features with values in {1, 3}
\* (feature j flips every j samples, so the samples are affinely independent)
\* and targets with values in {1, 2}; v picks a variant of the values.
DataX(f, v) ==
    IntArr(2, [i \in 1..DataLen |-> [j \in 1..f |->
                  1 + 2 * ((((i - 1) \div j) + v) % 2)]])

DataY(nd, k, v) ==
    IF nd = 1
    THEN IntArr(1, <<[i \in 1..DataLen |-> 1 + ((i + v) % 2)]>>)
    ELSE IntArr(2, [i \in 1..DataLen |-> [j \in 1..k |-> 1 + ((i + j + v) % 2)]])

\* samples lo..hi of an array of samples
Slice(a, lo, hi) ==
    IF a.nd = 1
    THEN [a EXCEPT !.m = <<[i \in 1..(hi - lo + 1) |-> a.m[1][lo + i - 1]]>>]
    ELSE [a EXCEPT !.m = [i \in 1..(hi - lo + 1) |-> a.m[lo + i - 1]]]

\* X: a 2-D float array of n samples by f features
XSet ==
    {Slice(DataX(f, 0), 1, n) : <<n, f>> \in (1..MaxSamples) \X (1..MaxFeatures)}

\* y: 1-D of n samples, or 2-D of n samples by k targets
YSet ==
    {Slice(DataY(1, 1, 0), 1, n) : n \in 1..MaxSamples}
    \cup
    {Slice(DataY(2, k, 0), 1, n) : <<n, k>> \in (1..MaxSamples) \X (1..MaxTargets)}

\* a flag the call does not read is passed with its default value
FlagIf(read) == IF read THEN BOOLEAN ELSE {TRUE}

\* what the call op returns when made on the object as it is now (fit and
\* partial_fit return self, which the model does not keep)
Returned(op, X) ==
    CASE op = "predict" -> predict_value(Self, X)
      [] op = "coef_" -> coef_(Self).ret
      [] op = "intercept_" -> intercept_(Self).ret
      [] OTHER -> None

Call(op, R, X, y, flags) ==
    [op |-> op, err |-> R.err, X |-> X, y |-> y, flags |-> flags,
     ret |-> Returned(op, X)]

NoCall == [op |-> "init", err |-> "none", X |-> Unset, y |-> Unset,
           flags |-> <<>>, ret |-> None]

\* the object's fields after a call that ended as R
Becomes(R) ==
    /\ K' = R.K
    /\ xTy' = R.xTy
    /\ output_weights' = R.W
    /\ scaler' = R.scaler
    /\ ncalls' = ncalls + 1
    /\ UNCHANGED <<config, itn>>

----------------------------------------------------------------------------
(* Operations *)

PartialFit(X, y, partial_normalize, reset, validate, postpone_inverse) ==
    /\ cls = "Incremental"
    /\ ExactInput(scaler, X, partial_normalize)
    /\ LET R == partial_fit(Self, X, y, partial_normalize, reset, validate,
                            postpone_inverse)
       IN  /\ Becomes(R)
           /\ call' = Call("partial_fit", R, X, y,
                           [partial_normalize |-> partial_normalize,
                            reset |-> reset, validate |-> validate,
                            postpone_inverse |-> postpone_inverse])

Fit(X, y) ==
    /\ cls = "Incremental"
    /\ ExactInput(scaler, X, FALSE)
    /\ LET R == fit(Self, X, y)
       IN  /\ Becomes(R)
           /\ call' = Call("fit", R, X, y, <<>>)

Predict(X) ==
    /\ cls = "Incremental"
    /\ ExactInput(scaler, X, FALSE)
    /\ LET R == predict(Self, X)
       IN  /\ Becomes(R)
           /\ call' = Call("predict", R, X, Unset, <<>>)

FastPartialFit(X, y, partial_normalize, validate, update_output_weights, finalize) ==
    /\ cls = "Fast"
    /\ ExactInput(scaler, X, partial_normalize)
    /\ LET R == fast_partial_fit(Self, X, y, partial_normalize, validate,
                                 update_output_weights, finalize)
       IN  /\ Becomes(R)
           /\ call' = Call("partial_fit", R, X, y,
                           [partial_normalize |-> partial_normalize,
                            reset |-> FALSE, validate |-> validate,
                            update_output_weights |-> update_output_weights,
                            finalize |-> finalize])

FastFit(X, y) ==
    /\ cls = "Fast"
    /\ ExactInput(scaler, X, FALSE)
    /\ LET R == fast_fit(Self, X, y)
       IN  /\ Becomes(R)
           /\ call' = Call("fit", R, X, y, <<>>)

FastPredict(X) ==
    /\ cls = "Fast"
    /\ ExactInput(scaler, X, FALSE)
    /\ LET R == fast_predict(Self, X)
       IN  /\ Becomes(R)
           /\ call' = Call("predict", R, X, Unset, <<>>)

\* reading the property coef_ (either class)
Coef ==
    /\ Becomes(Raise(Self, coef_(Self).err))
    /\ call' = Call("coef_", Raise(Self, coef_(Self).err), Unset, Unset, <<>>)

\* reading the property intercept_ (either class)
Intercept ==
    /\ Becomes(Raise(Self, intercept_(Self).err))
    /\ call' = Call("intercept_", Raise(Self, intercept_(Self).err), Unset,
                    Unset, <<>>)

----------------------------------------------------------------------------
(* Any sequence of calls on one object *)

Init ==
    /\ cls \in {"Incremental", "Fast"}
    /\ alpha \in 0..MaxAlpha
    /\ fit_intercept \in BOOLEAN
    /\ normalize \in BOOLEAN
    /\ scaler = Fresh.scaler
    /\ K = Fresh.K
    /\ xTy = Fresh.xTy
    /\ output_weights = Fresh.W
    /\ call = NoCall
    /\ ncalls = 0
    /\ data = [X |-> Unset, y |-> Unset]
    /\ pos = 0
    /\ hist = <<>>
    /\ itn = DefaultInputToNode

DoPartialFit ==
    /\ ncalls < MaxCalls
    /\ \E X \in XSet, y \in YSet, reset \in BOOLEAN, postpone_inverse \in BOOLEAN :
         \E partial_normalize \in FlagIf(normalize),
            validate \in FlagIf(~ValidData(X, y)) :
           PartialFit(X, y, partial_normalize, reset, validate, postpone_inverse)
    /\ UNCHANGED stream

DoFit ==
    /\ ncalls < MaxCalls
    /\ \E X \in XSet, y \in YSet : Fit(X, y)
    /\ UNCHANGED stream

DoPredict ==
    /\ ncalls < MaxCalls
    /\ \E X \in XSet : Predict(X)
    /\ UNCHANGED stream

DoFastPartialFit ==
    /\ ncalls < MaxCalls
    /\ \E X \in XSet, y \in YSet, update_output_weights \in BOOLEAN :
         \E partial_normalize \in FlagIf(normalize),
            validate \in FlagIf(~ValidData(X, y)),
            finalize \in FlagIf(update_output_weights) :
           FastPartialFit(X, y, partial_normalize, validate,
                          update_output_weights, finalize)
    /\ UNCHANGED stream

DoFastFit ==
    /\ ncalls < MaxCalls
    /\ \E X \in XSet, y \in YSet : FastFit(X, y)
    /\ UNCHANGED stream

DoFastPredict ==
    /\ ncalls < MaxCalls
    /\ \E X \in XSet : FastPredict(X)
    /\ UNCHANGED stream

DoCoef ==
    /\ ncalls < MaxCalls
    /\ Coef
    /\ UNCHANGED stream

DoIntercept ==
    /\ ncalls < MaxCalls
    /\ Intercept
    /\ UNCHANGED stream

Next ==
    \/ DoPartialFit
    \/ DoFit
    \/ DoPredict
    \/ DoFastPartialFit
    \/ DoFastFit
    \/ DoFastPredict
    \/ DoCoef
    \/ DoIntercept

Spec == Init /\ [][Next]_vars

----------------------------------------------------------------------------
(* A caller that streams one dataset through the object in contiguous      *)
(* batches: every call takes the next n samples, so the feature and target *)
(* dimensions and the sample counts of X and y are consistent throughout.  *)

\* the shapes of y: 1-D, or 2-D with k targets
YKinds == {<<1, 1>>} \cup {<<2, k>> : k \in 1..MaxTargets}

DataSets ==
    {[X |-> DataX(f, v), y |-> DataY(yk[1], yk[2], 0)] :
        <<f, v, yk>> \in (1..MaxFeatures) \X (0..(NumVariants - 1)) \X YKinds}

InitStream ==
    /\ cls \in {"Incremental", "Fast"}
    /\ alpha \in 0..MaxAlpha
    /\ fit_intercept \in BOOLEAN
    /\ normalize \in BOOLEAN
    /\ scaler = Fresh.scaler
    /\ K = Fresh.K
    /\ xTy = Fresh.xTy
    /\ output_weights = Fresh.W
    /\ call = NoCall
    /\ ncalls = 0
    /\ data \in DataSets
    /\ pos = 0
    /\ hist = <<>>
    /\ itn = DefaultInputToNode

\* the next n samples
NextX(n) == Slice(data.X, pos + 1, pos + n)

NextY(n) == Slice(data.y, pos + 1, pos + n)

BatchSizes == {n \in 1..MaxSamples : pos + n <= DataLen}

Streamed(n) ==
    /\ pos' = pos + n
    /\ hist' = Append(hist, [op |-> call'.op, n |-> n, flags |-> call'.flags])
    /\ UNCHANGED data

StreamPartialFit ==
    /\ ncalls < MaxBatches
    /\ \E n \in BatchSizes, reset \in BOOLEAN, postpone_inverse \in BOOLEAN :
         \E partial_normalize \in FlagIf(normalize) :
           /\ PartialFit(NextX(n), NextY(n), partial_normalize, reset, TRUE,
                         postpone_inverse)
           /\ Streamed(n)

StreamFit ==
    /\ ncalls < MaxBatches
    /\ \E n \in BatchSizes : Fit(NextX(n), NextY(n)) /\ Streamed(n)

StreamPredict ==
    /\ ncalls < MaxBatches
    /\ \E n \in BatchSizes : Predict(NextX(n)) /\ Streamed(n)

StreamFastPartialFit ==
    /\ ncalls < MaxBatches
    /\ \E n \in BatchSizes, update_output_weights \in BOOLEAN :
         \E partial_normalize \in FlagIf(normalize),
            finalize \in FlagIf(update_output_weights) :
           /\ FastPartialFit(NextX(n), NextY(n), partial_normalize, TRUE,
                             update_output_weights, finalize)
           /\ Streamed(n)

NextStream ==
    \/ StreamPartialFit
    \/ StreamFit
    \/ StreamPredict
    \/ StreamFastPartialFit

SpecStream == InitStream /\ [][NextStream]_vars

----------------------------------------------------------------------------
(* Properties *)

\* the samples streamed so far, as one dataset
WholeX == Slice(data.X, 1, pos)

WholeY == Slice(data.y, 1, pos)

\* every call so far was partial_fit with the default reset=False and
\* partial_normalize=True
AllPartialFits ==
    \A i \in 1..Len(hist) :
        /\ hist[i].op = "partial_fit"
        /\ ~hist[i].flags.reset
        /\ hist[i].flags.partial_normalize

\* ... and each was made with postpone_inverse=False
Eager == \A i \in 1..Len(hist) : ~hist[i].flags.postpone_inverse

\* ... or with postpone_inverse=True on every batch but the last
PostponedButLast ==
    \A i \in 1..Len(hist) : hist[i].flags.postpone_inverse <=> (i < Len(hist))

\* the object after eager partial_fit calls over batches i.. of the history,
\* S being the object before batch i, which starts after sample lo
RECURSIVE EagerReplay(_, _, _)
EagerReplay(S, i, lo) ==
    IF i > Len(hist) THEN S
    ELSE LET hi == lo + hist[i].n
             R == partial_fit([S EXCEPT !.err = "none"],
                              Slice(data.X, lo + 1, hi), Slice(data.y, lo + 1, hi),
                              hist[i].flags.partial_normalize, FALSE, TRUE, FALSE)
         IN  EagerReplay(R, i + 1, hi)

\* one partial_fit over the whole dataset on a new object, without a solve
OneShot ==
    IF cls = "Incremental"
    THEN partial_fit(Fresh, WholeX, WholeY, TRUE, FALSE, TRUE, TRUE)
    ELSE fast_partial_fit(Fresh, WholeX, WholeY, TRUE, TRUE, FALSE, FALSE)

C3_DeferredInversionEquivalence ==
    (cls = "Incremental" /\ Len(hist) >= 2 /\ AllPartialFits /\ PostponedButLast)
        => output_weights = EagerReplay(Fresh, 1, 0).W

\* C3 witness: two postponed batches and a solve on the third
C3_Witness ==
    /\ cls = "Incremental"
    /\ Len(hist) = 3 /\ AllPartialFits /\ PostponedButLast
    /\ IsSet(output_weights)

\* C4: whenever the output weights are set they solve (K + alpha I) W = xTy,
\* so the delta update gives what solving from scratch gives.
C4_SolutionInvariant ==
    (cls = "Incremental" /\ IsSet(output_weights)) =>
        LET A == Plus(K, IntArr(2, MatScale(alpha, Identity(Rows(K.m)))))
        IN  /\ safe_sparse_dot(A, output_weights) = xTy
            /\ Invertible(A)
            /\ output_weights = safe_sparse_dot(inv(A), xTy)

\* C4 witness: weights set by fit and then updated twice by the delta path
C4_Witness ==
    /\ cls = "Incremental"
    /\ Len(hist) = 3
    /\ hist[1].op = "fit"
    /\ \A i \in 2..3 : hist[i].op = "partial_fit" /\ ~hist[i].flags.reset
    /\ IsSet(output_weights)
    /\ call.err = "none"

\* the fields a failed call must leave alone
state == <<K, xTy, output_weights, scaler>>

\* C5: predict on an object whose output weights are not set raises
\* NotFittedError and leaves the object as it was (both classes).
C5_NotFittedGuard ==
    [][(call'.op = "predict" /\ ~IsSet(output_weights))
          => (call'.err = "NotFittedError" /\ UNCHANGED state)]_vars

\* C5 witness: predict raised after a partial_fit that only accumulated
C5_Witness ==
    /\ call.op = "predict"
    /\ call.err = "NotFittedError"
    /\ IsSet(K) /\ IsSet(xTy)
    /\ ~IsSet(output_weights)

\* C6: a fit(X, Y) that passes validation leaves K, xTy and the output
\* weights as fit(X, Y) leaves them on a new IncrementalRegression.
C6_FitResets ==
    (cls = "Incremental" /\ call.op = "fit") =>
        LET R == fit(Fresh, call.X, call.y)
        IN  K = R.K /\ xTy = R.xTy /\ output_weights = R.W

\* C6 witness: fit after two eager partial_fit calls
C6_Witness ==
    /\ cls = "Incremental"
    /\ Len(hist) = 3
    /\ hist[3].op = "fit"
    /\ \A i \in 1..2 : hist[i].op = "partial_fit" /\ ~hist[i].flags.postpone_inverse
    /\ IsSet(output_weights)

\* the feature count the accumulated K was built for
LockedFeatures == Cols(K.m) - (IF fit_intercept THEN 1 ELSE 0)

\* C7 as stated: once K is set, a partial_fit without reset whose X has
\* another feature count raises and leaves K and xTy unchanged.
C7_DimensionLockIn ==
    [][(/\ call'.op = "partial_fit"
        /\ ~call'.flags.reset
        /\ IsSet(K)
        /\ Cols(call'.X.m) # LockedFeatures)
          => (call'.err # "none" /\ K' = K /\ xTy' = xTy)]_vars

\* C8 as stated: a partial_fit that raises never changes one of K and xTy
\* without the other (checked for calls whose X and y have the same number
\* of samples, such as a y with another number of targets).
C8_AccumulatorAtomicity ==
    [][(/\ call'.op = "partial_fit"
        /\ ValidData(call'.X, call'.y)
        /\ call'.err # "none")
          => ((K' = K) <=> (xTy' = xTy))]_vars

\* C9 as stated: a partial_fit whose X and y differ in their sample counts
\* raises and leaves K, xTy, the output weights and the scaler unchanged,
\* with validate True or False.
C9_SampleCountMismatch ==
    [][(call'.op = "partial_fit" /\ ~ValidData(call'.X, call'.y))
          => (call'.err # "none" /\ UNCHANGED state)]_vars

\* C10 as stated: when the inversion fails inside partial_fit, K, xTy and
\* the output weights are left as they were before the call.
C10_InversionFailureKeepsState ==
    [][(call'.op = "partial_fit" /\ call'.err = "LinAlgError")
          => (K' = K /\ xTy' = xTy /\ output_weights' = output_weights)]_vars

\* C11 as stated: a predict call leaves the scaler's statistics as the
\* preceding fit / partial_fit calls left them.
C11_PredictKeepsScaler ==
    [][call'.op = "predict" => scaler' = scaler]_vars

\* the caller's array X after the predict call that just returned: with
\* normalize and without the intercept column X_preprocessed is X itself,
\* which the scaler (copy=False) standardises in place
BufferAfterPredict ==
    IF normalize /\ ~fit_intercept THEN ScalerTransform(scaler, call.X)
    ELSE call.X

\* a times its common denominator.  Standardising is invariant under a
\* positive factor ((x - mean) / std keeps its value, a constant column gives
\* 0 either way), so predict returns for Numerators(a) what it returns for a
Numerators(a) == IntArr(a.nd, a.m)

\* C12: after predict(X) returned, predict(X) again returns the same output
\* and leaves the object as it is (so any number of further calls do), both
\* for an array with the values of X and for the caller's array itself.
C12_PredictIdempotent ==
    (call.op = "predict" /\ call.err = "none") =>
        /\ predict(Self, call.X) = Self
        /\ predict_value(Self, call.X) = call.ret
        /\ predict_value(Self, Numerators(BufferAfterPredict)) = call.ret

\* C12 witness: a predict with normalize=True returned a prediction
C12_Witness ==
    /\ call.op = "predict" /\ call.err = "none"
    /\ normalize
    /\ call.ret.nd \in {1, 2}
    /\ \E i \in 1..Rows(call.ret.m), j \in 1..Cols(call.ret.m) :
           call.ret.m[i][j] # 0

\* C13: predict, coef_ and intercept_ leave K, xTy and the output weights
\* unchanged, and K or xTy goes from set to unset only in fit or in
\* partial_fit(reset=True).
C13_StatisticsFrame ==
    [][/\ call'.op \in {"predict", "coef_", "intercept_"}
           => (K' = K /\ xTy' = xTy /\ output_weights' = output_weights)
       /\ ((IsSet(K) /\ ~IsSet(K')) \/ (IsSet(xTy) /\ ~IsSet(xTy')))
           => (call'.op = "fit" \/ (call'.op = "partial_fit" /\ call'.flags.reset))
      ]_vars

\* C13 witness: predict returned on an object that still holds K, xTy and W
C13_Witness ==
    /\ call.op = "predict" /\ call.err = "none"
    /\ IsSet(K) /\ IsSet(xTy) /\ IsSet(output_weights)

\* a call of the Fast class that solves: fit, or partial_fit with
\* update_output_weights=True
Solving(c) ==
    c.op = "fit" \/ (c.op = "partial_fit" /\ c.flags.update_output_weights)

\* ... and finalizes: fit, or partial_fit with finalize=True as well
Finalizing(c) ==
    c.op = "fit"
      \/ (c.op = "partial_fit" /\ c.flags.update_output_weights /\ c.flags.finalize)

\* C14 as stated: every solving call of a FastIncrementalRegression on valid
\* data completes without error and sets the output weights.
C14_FastSolveSucceeds ==
    [][(cls = "Fast" /\ Solving(call') /\ ValidData(call'.X, call'.y))
          => (call'.err = "none" /\ IsSet(output_weights'))]_vars

\* C15 as stated: after a finalizing call of a FastIncrementalRegression on
\* valid data both accumulators are discarded and the output weights are set.
C15_FastFinalizeDiscards ==
    [][(cls = "Fast" /\ Finalizing(call') /\ ValidData(call'.X, call'.y))
          => (~IsSet(K') /\ ~IsSet(xTy') /\ IsSet(output_weights'))]_vars

\* the rows of the transpose of coef and then intercept as the last row;
\* np.array([]) adds no row
StackRows(coef, intercept) ==
    IF intercept = EmptyArray THEN transpose(coef)
    ELSE LET C == Transpose(coef.m)
         IN  Norm([nd |-> 2,
                   m |-> [i \in 1..(Rows(C) + 1) |-> [j \in 1..Cols(C) |->
                             IF i <= Rows(C) THEN C[i][j] * intercept.den
                             ELSE intercept.m[1][j] * coef.den]],
                   den |-> coef.den * intercept.den])

\* the number of features the output weights were fitted for
FittedFeatures ==
    (IF output_weights.nd = 2 THEN Rows(output_weights.m)
     ELSE Cols(output_weights.m)) - (IF fit_intercept THEN 1 ELSE 0)

\* C16: on a regressor fitted with a 2-D y of k targets, coef_ is k by f
\* and is the transpose of the first f rows of W, and coef_ stacked on
\* intercept_ gives W back; with fit_intercept=False coef_ is the transpose
\* of W.
C16_CoefStripsIntercept ==
    (call.op = "coef_" /\ IsSet(output_weights)) =>
        LET c == call.ret
            W == output_weights
        IN  /\ call.err = "none"
            /\ ~fit_intercept => c = transpose(W)
            /\ W.nd = 2 =>
                  /\ c.nd = 2
                  /\ Rows(c.m) = Cols(W.m)
                  /\ Cols(c.m) = FittedFeatures
                  /\ \A i \in 1..Rows(c.m), j \in 1..Cols(c.m) :
                         c.m[i][j] * W.den = W.m[j][i] * c.den
                  /\ StackRows(c, intercept_(Self).ret) = W

\* C16 witness: coef_ read after a fit with intercept, two features and two
\* targets
C16_Witness ==
    /\ call.op = "coef_" /\ call.err = "none"
    /\ fit_intercept
    /\ output_weights.nd = 2
    /\ Rows(output_weights.m) = 3 /\ Cols(output_weights.m) = 2
    /\ Rows(call.ret.m) = 2 /\ Cols(call.ret.m) = 2

\* the last row of W as a 1-D array
LastRow(W) ==
    IF W.nd = 2
    THEN Norm([nd |-> 1, m |-> <<W.m[Rows(W.m)]>>, den |-> W.den])
    ELSE Norm([nd |-> 1, m |-> <<<<W.m[1][Cols(W.m)]>>>>, den |-> W.den])

\* C17 as stated: intercept_ never raises; it returns the last row of W when
\* the regressor is fitted with fit_intercept=True (W 1-D or 2-D) and an
\* empty value otherwise.
C17_InterceptLastRow ==
    [][call'.op = "intercept_" =>
          /\ call'.err = "none"
          /\ call'.ret = (IF IsSet(output_weights) /\ fit_intercept
                          THEN LastRow(output_weights)
                          ELSE IF cls = "Incremental" THEN EmptyArray ELSE None)
      ]_vars

\* C18: coef_ and intercept_ read while the output weights are unset return
\* an empty or null value and do not raise.
C18_UnfittedAccessors ==
    [][(call'.op \in {"coef_", "intercept_"} /\ ~IsSet(output_weights))
          => (call'.err = "none" /\ call'.ret \in {Unset, EmptyArray, None})]_vars

\* C18 witness: coef_ read on a new IncrementalRegression
C18_Witness ==
    /\ call.op = "coef_" /\ call.err = "none"
    /\ cls = "Incremental"
    /\ ncalls = 1
    /\ call.ret = Unset

\* C19 (as amended): before any solve has set the output weights, predict
\* raises NotFittedError and coefficient access (coef_, intercept_) does not.
C19_OnlyPredictRaisesUnfitted ==
    [][(call'.op \in {"predict", "coef_", "intercept_"} /\ ~IsSet(output_weights))
          => (call'.err = "NotFittedError" <=> call'.op = "predict")]_vars

\* C19 witness: intercept_ read after a partial_fit that only accumulated
C19_Witness ==
    /\ call.op = "intercept_" /\ call.err = "none"
    /\ IsSet(K) /\ IsSet(xTy)
    /\ ~IsSet(output_weights)

\* C19 as stated: coefficient access while the output weights are unset
\* raises the not-fitted error
C19_Original ==
    [][(call'.op \in {"coef_", "intercept_"} /\ ~IsSet(output_weights))
          => call'.err = "NotFittedError"]_vars

\* C20 as stated: no output weights are ever computed with alpha <= 0.
C20_NoWeightsWithoutRegularization ==
    IsSet(output_weights) => alpha > 0

\* the partial_normalize a call passes to _preprocessing: fit and predict
\* pass False
PartialNormalize(c) ==
    IF c.op = "partial_fit" THEN c.flags.partial_normalize ELSE FALSE

\* the call c, made on an object whose output weights are W, gets as far as
\* _preprocessing: validation passed (or was switched off), and predict
\* found the weights set
ReachesPreprocessing(W, c) ==
    CASE c.op = "fit" -> ValidData(c.X, c.y)
      [] c.op = "partial_fit" -> (c.flags.validate => ValidData(c.X, c.y))
      [] c.op = "predict" -> IsSet(W)
      [] OTHER -> FALSE

\* C21 as stated: the matrix _preprocessing hands to accumulation and to
\* predict has f + 1 columns with a last column of ones when fit_intercept
\* is True, with normalize False or True, and f columns otherwise.
C21_InterceptColumn ==
    [][ReachesPreprocessing(output_weights, call') =>
          LET pp == preprocessing(scaler, call'.X, PartialNormalize(call'))
              d == Cols(pp.X.m)
          IN  pp.err = "none" =>
                /\ d = Cols(call'.X.m) + (IF fit_intercept THEN 1 ELSE 0)
                /\ fit_intercept =>
                      \A i \in 1..Rows(pp.X.m) : pp.X.m[i][d] = pp.X.den
      ]_vars

\* the caller's array X after the call c, made on an object with scaler sc
\* and output weights W: without the intercept column X_preprocessed is X
\* itself, and the scaler (copy=False) standardises it in place
CallerXAfter(sc, W, c) ==
    IF ReachesPreprocessing(W, c) /\ normalize /\ ~fit_intercept
    THEN LET pp == preprocessing(sc, c.X, PartialNormalize(c))
         IN  IF pp.err = "none" THEN pp.X ELSE c.X
    ELSE c.X

\* C22 as stated: after fit, partial_fit or predict the caller's X holds the
\* values it held before the call.
C22_CallerBufferUntouched ==
    [][call'.op \in {"fit", "partial_fit", "predict"}
          => CallerXAfter(scaler, output_weights, call') = call'.X]_vars

\* the batch of call c as preprocessed by a regressor whose scaler is sc
Batch(sc, c) == preprocessing(sc, c.X, PartialNormalize(c)).X

\* the accumulators after a call with the given reset flag added the
\* preprocessed batch Xp with targets y to the accumulators A and B
Added(A, B, Xp, y, reset) ==
    LET G == safe_sparse_dot(T(Xp), Xp)
        H == safe_sparse_dot(T(Xp), y)
    IN  IF reset \/ ~IsSet(A) THEN <<G, H>> ELSE <<IAdd(A, G), IAdd(B, H)>>

\* C25: a partial_fit with postpone_inverse=True on an IncrementalRegression
\* whose W is unset adds the batch to K and to C, raises nothing and leaves
\* W unset; an unset W makes predict raise NotFittedError, and W only
\* becomes set by a call that runs with postpone_inverse=False (partial_fit,
\* or fit, which passes postpone_inverse=False).
C25_PostponedInversion ==
    [][cls = "Incremental" =>
         /\ (call'.op = "partial_fit" /\ call'.flags.postpone_inverse
                /\ ~IsSet(output_weights))
              => /\ call'.err = "none"
                 /\ ~IsSet(output_weights')
                 /\ <<K', xTy'>> = Added(K, xTy, Batch(scaler, call'), call'.y,
                                         call'.flags.reset)
         /\ (call'.op = "predict" /\ ~IsSet(output_weights))
              => call'.err = "NotFittedError"
         /\ (~IsSet(output_weights) /\ IsSet(output_weights'))
              => \/ call'.op = "fit"
                 \/ call'.op = "partial_fit" /\ ~call'.flags.postpone_inverse
      ]_vars

\* C25 witness: two postponed batches have been accumulated, W is still
\* unset and K holds both
C25_Witness ==
    /\ cls = "Incremental"
    /\ Len(hist) = 2
    /\ \A i \in 1..2 : hist[i].op = "partial_fit"
                         /\ hist[i].flags.postpone_inverse
                         /\ ~hist[i].flags.reset
    /\ ~IsSet(output_weights)
    /\ IsSet(K) /\ IsSet(xTy)
    /\ call.err = "none"

\* C26: once W is set, a partial_fit without reset updates W in the same
\* call although postpone_inverse=True is passed: it raises nothing and
\* leaves W = (K + alpha I)^-1 C for the K and C that include the batch.
C26_NoPostponingOnceSolved ==
    [][(cls = "Incremental" /\ IsSet(output_weights)
          /\ call'.op = "partial_fit" /\ call'.flags.postpone_inverse
          /\ ~call'.flags.reset)
         => /\ call'.err = "none"
            /\ <<K', xTy'>> = Added(K, xTy, Batch(scaler, call'), call'.y, FALSE)
            /\ LET A == Plus(K', IntArr(2, MatScale(alpha, Identity(Rows(K'.m)))))
               IN  /\ Invertible(A)
                   /\ output_weights' = safe_sparse_dot(inv(A), xTy')
      ]_vars

\* C26 witness: W was set by an eager partial_fit, and the next partial_fit
\* was made with postpone_inverse=True and no reset
C26_Witness ==
    /\ cls = "Incremental"
    /\ Len(hist) = 2
    /\ hist[1].op = "partial_fit" /\ ~hist[1].flags.postpone_inverse
    /\ hist[2].op = "partial_fit" /\ hist[2].flags.postpone_inverse
    /\ ~hist[2].flags.reset
    /\ IsSet(output_weights)
    /\ call.err = "none"
    /\ call.flags.postpone_inverse

\* C27 as stated: after partial_fit(X, y, reset=True) K, C and W are those of
\* a freshly constructed regressor with the same hyperparameters after
\* partial_fit(X, y) with the same flags.
C27_ResetBeginsNewFit ==
    (cls = "Incremental" /\ call.op = "partial_fit" /\ call.flags.reset
       /\ ExactInput(ScalerInit, call.X, call.flags.partial_normalize))
      => LET R == partial_fit(Fresh, call.X, call.y,
                              call.flags.partial_normalize, FALSE,
                              call.flags.validate, call.flags.postpone_inverse)
         IN  /\ K = R.K
             /\ xTy = R.xTy
             /\ output_weights = R.W

\* C28 as stated: a partial_fit of a FastIncrementalRegression that follows a
\* finalizing call raises nothing, leaves in K and C the terms of its own
\* batch alone and, when it solves, sets W.
C28_FreshAfterFinalize ==
    [][(cls = "Fast" /\ Finalizing(call) /\ call'.op = "partial_fit")
         => LET Xp == Batch(scaler, call')
            IN  /\ call'.err = "none"
                /\ IF Finalizing(call')
                   THEN ~IsSet(K') /\ ~IsSet(xTy')
                   ELSE <<K', xTy'>> = Added(Unset, Unset, Xp, call'.y, TRUE)
                /\ Solving(call') => IsSet(output_weights')
      ]_vars

\* C29 as stated: the only call after which a fitted IncrementalRegression
\* is unfitted is partial_fit with reset=True and postpone_inverse=True.
C29_FittedIsMonotone ==
    [][(cls = "Incremental" /\ IsSet(output_weights)
          /\ ~IsSet(output_weights'))
         => /\ call'.op = "partial_fit"
            /\ call'.flags.reset
            /\ call'.flags.postpone_inverse
      ]_vars

----------------------------------------------------------------------------
(* One dataset fitted by regressors of growing alpha *)

MaxRidgeAlpha == 3
MaxRidgeCalls == 2

\* noiseless targets y = 3 x + 5 for the one-feature data, as a 1-D array or
\* as a column
LineY(nd, v) ==
    IF nd = 1
    THEN IntArr(1, <<[i \in 1..DataLen |-> 3 * DataX(1, v).m[i][1] + 5]>>)
    ELSE IntArr(2, [i \in 1..DataLen |-> <<3 * DataX(1, v).m[i][1] + 5>>])

LineSets ==
    {[X |-> DataX(1, v), y |-> LineY(nd, v)] :
        <<nd, v>> \in {1, 2} \X (0..(NumVariants - 1))}

InitRidge ==
    /\ cls = "Incremental"
    /\ alpha \in 0..MaxRidgeAlpha
    /\ fit_intercept \in BOOLEAN
    /\ normalize \in BOOLEAN
    /\ scaler = Fresh.scaler
    /\ K = Fresh.K
    /\ xTy = Fresh.xTy
    /\ output_weights = Fresh.W
    /\ call = NoCall
    /\ ncalls = 0
    /\ data \in DataSets \cup LineSets
    /\ pos = 0
    /\ hist = <<>>
    /\ itn = DefaultInputToNode

\* what the caller keeps of a fit that ended as R
FitRecord(R) ==
    [alpha |-> alpha, err |-> R.err, W |-> R.W, coef |-> coef_(R).ret]

\* fit on the whole dataset; the caller keeps the result of the latest fit
\* of this regressor next to that of the regressor before it
RidgeFit ==
    /\ ncalls < MaxRidgeCalls
    /\ Fit(data.X, data.y)
    /\ LET rec == FitRecord(fit(Self, data.X, data.y))
           n == Len(hist)
       IN  hist' = IF n > 0 /\ hist[n].alpha = alpha
                   THEN [hist EXCEPT ![n] = rec]
                   ELSE Append(hist, rec)
    /\ UNCHANGED <<data, pos>>

RidgeCoef == ncalls < MaxRidgeCalls /\ Coef /\ UNCHANGED stream

RidgeIntercept == ncalls < MaxRidgeCalls /\ Intercept /\ UNCHANGED stream

\* __init__ of a regressor with a larger alpha and the same other
\* hyperparameters, which replaces the one at hand
RidgeNew ==
    /\ \E a \in (alpha + 1)..MaxRidgeAlpha : alpha' = a
    /\ K' = Fresh.K
    /\ xTy' = Fresh.xTy
    /\ output_weights' = Fresh.W
    /\ scaler' = Fresh.scaler
    /\ call' = NoCall
    /\ ncalls' = 0
    /\ hist' = IF Len(hist) > 0 THEN <<hist[Len(hist)]>> ELSE <<>>
    /\ UNCHANGED <<cls, fit_intercept, normalize, data, pos, itn>>

NextRidge ==
    \/ RidgeFit
    \/ RidgeCoef
    \/ RidgeIntercept
    \/ RidgeNew

SpecRidge == InitRidge /\ [][NextRidge]_vars

RECURSIVE SumSquares(_)
SumSquares(s) == IF s = <<>> THEN 0 ELSE Head(s) * Head(s) + SumSquares(Tail(s))

\* a / b <= c / d for a, c >= 0 and b, d > 0, by comparing the continued
\* fractions (no products, which would leave the integer range)
RECURSIVE FracLeq(_, _, _, _)
FracLeq(a, b, c, d) ==
    IF a \div b # c \div d THEN a \div b < c \div d
    ELSE IF a % b = 0 THEN TRUE
    ELSE IF c % d = 0 THEN FALSE
    ELSE FracLeq(d, c % d, b, a % b)

\* np.linalg.norm(A) <= np.linalg.norm(B)
NormLeq(A, B) ==
    FracLeq(SumSquares(Flatten(A.m)), A.den * A.den,
            SumSquares(Flatten(B.m)), B.den * B.den)

\* two regressors with positive alphas, the second larger, were both fitted
\* on the dataset without error
TwoRidgeFits ==
    /\ Len(hist) = 2
    /\ hist[1].err = "none" /\ hist[2].err = "none"
    /\ 0 < hist[1].alpha /\ hist[1].alpha < hist[2].alpha

\* C23 as stated: on the fixed dataset the norm of coef_ after fitting with
\* the larger alpha is no larger than after fitting with the smaller one,
\* with fit_intercept False or True.
C23_Original == TwoRidgeFits => NormLeq(hist[2].coef, hist[1].coef)

\* C23 as amended: the norm of the whole W (coef_ together with the
\* intercept row) does not grow with alpha, and so the norm of coef_ does
\* not grow when fit_intercept=False.
C23_RidgeShrinkage ==
    TwoRidgeFits =>
        /\ NormLeq(hist[2].W, hist[1].W)
        /\ ~fit_intercept => NormLeq(hist[2].coef, hist[1].coef)

\* C23 witness: without intercept, two fits whose coef_ strictly shrinks
C23_Witness ==
    /\ TwoRidgeFits
    /\ ~fit_intercept
    /\ ~NormLeq(hist[1].coef, hist[2].coef)

\* every entry of the array A is within 1e-3 of v
Close(A, v) ==
    /\ A.nd \in {1, 2}
    /\ Flatten(A.m) # <<>>
    /\ \A i \in 1..Len(Flatten(A.m)) :
         1000 * Abs(Flatten(A.m)[i] - v * A.den) <= A.den

\* C24 as stated, with alpha = 0 standing for the small alpha (the ridge
\* solution tends to the one of alpha = 0, which is exact here): after
\* fitting y = 3 x + 5 with fit_intercept=True, coef_ is within 1e-3 of [3]
\* and intercept_ within 1e-3 of [5].
C24_InterceptRecovery ==
    (/\ data \in LineSets
     /\ fit_intercept /\ ~normalize /\ alpha = 0
     /\ Len(hist) > 0 /\ hist[Len(hist)].alpha = alpha
     /\ call.op \in {"coef_", "intercept_"})
      => /\ call.err = "none"
         /\ Close(call.ret, IF call.op = "coef_" THEN 3 ELSE 5)

----------------------------------------------------------------------------
(* InputToNode objects of every small configuration, fitted *)

MaxHidden == 3
MaxKIn == 3
MaxFits == 2

Sparsities == {<<0, 1>>, <<1, 2>>, <<1, 1>>, <<3, 2>>}

InitItn ==
    /\ cls = "Incremental"
    /\ alpha = 0
    /\ fit_intercept = TRUE
    /\ normalize = FALSE
    /\ scaler = Fresh.scaler
    /\ K = Fresh.K
    /\ xTy = Fresh.xTy
    /\ output_weights = Fresh.W
    /\ call = NoCall
    /\ ncalls = 0
    /\ data = [X |-> Unset, y |-> Unset]
    /\ pos = 0
    /\ hist = <<>>
    /\ \E h \in 0..MaxHidden, s \in Sparsities,
          act \in {"tanh", "softmax"}, input_scaling \in {0, 1},
          bias_scaling \in {-1, 0},
          k \in {<<>>} \cup {<<i>> : i \in 0..MaxKIn} :
         \E piw \in {<<>>} \cup {<<r, h>> : r \in 1..MaxFeatures},
            pbw \in {<<>>, <<h, 1>>, <<h>>} :
           itn = InputToNode(h, s, act, input_scaling, bias_scaling, k, piw, pbw)

\* fit(X) with an X of n_features columns
ItnFit ==
    /\ itn.nfits < MaxFits
    /\ \E n_features \in 1..MaxFeatures :
         \E drawn \in Drawn(itn, n_features) :
           itn' = itn_fit(itn, n_features, drawn)
    /\ UNCHANGED regression

NextItn == ItnFit

SpecItn == InitItn /\ [][NextItn]_vars

\* C30 as stated: after every successful fit of an InputToNode its sparsity
\* lies in (0, 1] and the fan_in derived from it is at most
\* hidden_layer_size, with k_in set or not.
C30_SparsityBound ==
    (itn.nfits > 0 /\ itn.err = "none")
      => /\ 0 < itn.sparsity[1]
         /\ itn.sparsity[1] <= itn.sparsity[2]
         /\ itn.fan_in <= itn.hidden_layer_size

====
